---- MODULE Spec2Model ----
(***************************************************************************)
(* Research pipeline of richcorabbithole-api.                              *)
(*                                                                         *)
(*   Accept handler  (research.js):       validate, PutCommand a pending   *)
(*                                        record, SendMessageCommand.      *)
(*   Worker handler  (researchWorker.js): idempotency GetCommand, update   *)
(*                                        to researching, secret, provider,*)
(*                                        PutObjectCommand, update to      *)
(*                                        researched / failed.             *)
(*                                                                         *)
(* Every await of a handler is one action: the external call it waits for  *)
(* together with the synchronous code that follows it up to the next       *)
(* await.  The Task Store is a function from the keys that exist to items, *)
(* an item being a record of exactly the attributes it carries.            *)
(***************************************************************************)
EXTENDS Integers, Sequences, FiniteSets, TLC

\* ------------------------------------------------------------------ bounds
MaxTasks    == 2    \* taskIds randomUUID can hand out
MaxForeign  == 1    \* messages put on the queue by a sender other than Accept
MaxTimeouts == 1    \* visibility timeouts that expire under a running worker
MaxClock    == 1    \* ticks of the wall clock

\* ------------------------------------------------------- program constants
MaxTopicLength  == 500
MaxReceiveCount == 2

\* ------------------------------------------------------------- JS values
\* A JSON value as far as the handlers look at it: its typeof, and n = the
\* number itself, the length of a string, 1/0 for a boolean.
Val(t, n)  == [type |-> t, n |-> n]
Undefined  == Val("undefined", 0)
Str(n)     == Val("string", n)

\* JS truthiness (the ! operator)
Truthy(v) ==
  CASE v.type \in {"undefined", "null"}            -> FALSE
    [] v.type \in {"number", "string", "boolean"}  -> v.n # 0
    [] OTHER                                       -> TRUE

NoId == ""            \* taskId of a message body that has none

\* --------------------------------------------------------------- Accept
\* event.body as API Gateway hands it over.  raw: "absent" (no body),
\* "invalid" (not JSON), "null" (the JSON text null), "scalar" (a JSON
\* number, string or boolean), "object" (a JSON object with the given topic).
Body(raw, topic) == [raw |-> raw, topic |-> topic]

TopicValues ==
  { Undefined, Val("null", 0), Val("number", 123), Val("number", 0),
    Val("object", 0), Str(0), Str(1), Str(MaxTopicLength),
    Str(MaxTopicLength + 1) }

RequestBodies ==
  { Body("absent", Undefined), Body("invalid", Undefined),
    Body("null", Undefined), Body("scalar", Undefined) }
  \cup { Body("object", v) : v \in TopicValues }

\* JSON.parse(event.body || "{}") followed by const { topic } = body:
\* "parseError" when JSON.parse throws, "typeError" when the destructuring
\* throws (body is null), else the topic that was read.
ParseRequest(b) ==
  CASE b.raw = "invalid" -> [outcome |-> "parseError", topic |-> Undefined]
    [] b.raw = "null"    -> [outcome |-> "typeError",  topic |-> Undefined]
    [] b.raw = "object"  -> [outcome |-> "ok",         topic |-> b.topic]
    [] OTHER             -> [outcome |-> "ok",         topic |-> Undefined]

\* message of the TypeError the destructuring of null raises
ErrDestructure == "Cannot destructure property 'topic' of 'body' as it is null."

TopicMissing(topic) == ~Truthy(topic) \/ topic.type # "string"
\* mutant: the limit excludes 500
TopicTooLong_Exclusive(topic) == topic.n >= MaxTopicLength

TopicTooLong(topic) == topic.n > MaxTopicLength

\* The synchronous prefix of the accept handler: 0 when the request goes on
\* to the store write, else the status code it answers with.
ValidateRequest(b) ==
  LET p == ParseRequest(b) IN
  CASE p.outcome = "parseError" -> [code |-> 400, error |-> "Invalid JSON in request body"]
    [] p.outcome = "typeError"  -> [code |-> 500, error |-> ErrDestructure]
    [] TopicMissing(p.topic)    -> [code |-> 400, error |-> "Missing required field: topic (must be a string)"]
    [] TopicTooLong(p.topic)    -> [code |-> 400, error |-> "topic must be 500 characters or fewer"]
    [] OTHER                    -> [code |-> 0,   error |-> ""]

\* ------------------------------------------------------------ Task Store
TaskIds  == { "t" \o ToString(i) : i \in 1..MaxTasks }
GhostId  == "ghost"          \* a taskId Accept never generated

\* PutCommand: the item replaces whatever is stored under its key
DdbPut(st, item) ==
  [k \in DOMAIN st \cup {item.taskId} |-> IF k = item.taskId THEN item ELSE st[k]]

\* mutant: the update replaces the item by the key and the named attributes
DdbUpdate_Replaces(st, key, fields) ==
  LET new == [a \in {"taskId"} \cup DOMAIN fields |->
                IF a \in DOMAIN fields THEN fields[a] ELSE key]
  IN  [k \in DOMAIN st \cup {key} |-> IF k = key THEN new ELSE st[k]]

\* UpdateCommand with a SET expression: the named attributes are written,
\* the others kept; an item is created when the key has none.
DdbUpdate(st, key, fields) ==
  LET old == IF key \in DOMAIN st THEN st[key] ELSE [taskId |-> key]
      new == [a \in DOMAIN old \cup DOMAIN fields |->
                IF a \in DOMAIN fields THEN fields[a] ELSE old[a]]
  IN  [k \in DOMAIN st \cup {key} |-> IF k = key THEN new ELSE st[k]]

\* the SET list of a status update: status, updatedAt and the extra fields
StatusFields(status, now, extra) ==
  [a \in {"status", "updatedAt"} \cup DOMAIN extra |->
     IF a = "status" THEN status
     ELSE IF a = "updatedAt" THEN now
     ELSE extra[a]]

NoExtra == [a \in {} |-> ""]

\* mutant: the extra fields are left out of the update
updateTaskStatus_DropsExtra(st, taskId, status, now, extraFields) ==
  DdbUpdate(st, taskId, StatusFields(status, now, NoExtra))

\* updateTaskStatus(taskId, status, extraFields): the store after its
\* UpdateCommand succeeded at time now
updateTaskStatus(st, taskId, status, now, extraFields) ==
  DdbUpdate(st, taskId, StatusFields(status, now, extraFields))

\* mutant: one key for every task
S3KeyOf_Fixed(taskId) == "research/t1.md"

\* `research/${taskId}.md`
S3KeyOf(taskId) == "research/" \o taskId \o ".md"

\* PutObjectCommand
S3Put(bl, key, body) ==
  [k \in DOMAIN bl \cup {key} |-> IF k = key THEN body ELSE bl[k]]

\* ---------------------------------------------------------------- queue
\* A message body: raw "invalid" (not JSON) or "object" with the fields read
MsgBody(raw, taskId, topic) == [raw |-> raw, taskId |-> taskId, topic |-> topic]

\* JSON.stringify({ taskId, topic })
WorkItem(taskId, topic) == MsgBody("object", taskId, topic)

\* ------------------------------------------------------------- provider
Block(type, text) == [type |-> type, text |-> text]

Responses ==
  { << Block("text", "A") >>,
    << Block("tool_use", ""), Block("text", "B") >>,
    << Block("text", "B"), Block("text", "A") >>,
    << Block("tool_use", "") >>,
    << >> }

\* mutant: message.content[0], whatever its type
FindTextBlock_Index0(content) == IF Len(content) >= 1 THEN 1 ELSE 0

\* message.content.find(block => block.type === "text"): index of the
\* first text block, 0 when there is none
FindTextBlock(content) ==
  IF \E i \in 1..Len(content) : content[i].type = "text"
  THEN CHOOSE i \in 1..Len(content) :
         /\ content[i].type = "text"
         /\ \A j \in 1..(i - 1) : content[j].type # "text"
  ELSE 0

\* error messages of the external calls
ErrGet      == "DynamoDB get failed"
ErrUpdate   == "DynamoDB update failed"
ErrSecret   == "secret unavailable"
ErrProvider == "rate limited"
ErrS3       == "S3 bucket not found"
ErrNoText   == "Claude returned no text content"
ErrMalformed == "Malformed SQS message body"
ErrNoTaskId  == "Missing taskId in SQS message"
ErrNoTopic   == "Missing topic in SQS message"
ErrCreate    == "Failed to create task record"
ErrPublish   == "Failed to place message on queue"
ErrMarkFailed == "DynamoDB down too"   \* updateError in the catch block, only logged

SecretString == "sk-ant-key"
NoKey        == ""

Workers == {"w1", "w2"}

\* one external call of an invocation: the command, its key or status
\* argument, the detail it carries (the error written, the body stored, what
\* the provider answered) and whether it succeeded
Call(op, arg, detail, ok) == [op |-> op, arg |-> arg, detail |-> detail, ok |-> ok]

VARIABLES
  store,        \* Task Store: key -> item
  blobs,        \* Blob Store: key -> body
  queue,        \* message id -> [body, sender, rc, st, holder]
  issued,       \* taskIds randomUUID has returned
  clock,        \* new Date()
  acc,          \* the accept handler's invocation
  wk,           \* Workers -> the worker handler's invocation
  cachedApiKey, \* Workers -> the module variable of that worker process
  timeouts,     \* visibility timeouts expired so far
  foreign       \* foreign messages sent so far

vars == << store, blobs, queue, issued, clock, acc, wk, cachedApiKey,
           timeouts, foreign >>

\* --------------------------------------------------------------- initial
\* acc.updateNow and wk[w].now hold the new Date() read when a status
\* update is built (before its await); the update writes it as updatedAt
\* when DynamoDB applies the command.
NoResp   == [statusCode |-> 0, taskId |-> NoId, status |-> "", message |-> "", error |-> ""]
AccIdle  == [pc |-> "idle", body |-> Body("absent", Undefined), taskId |-> NoId,
             topic |-> Undefined, now |-> 0, updateNow |-> 0, calls |-> << >>,
             resp |-> NoResp]

ResultUndefined == [undefined |-> TRUE]
WkIdle   == [pc |-> "idle", msg |-> 0, taskId |-> NoId, topic |-> Undefined,
             err |-> "", response |-> << >>, content |-> "", calls |-> << >>,
             atDelivery |-> "", now |-> 0,
             outcome |-> "", error |-> "", result |-> ResultUndefined]

Init ==
  /\ store = [k \in {} |-> [taskId |-> k]]
  /\ blobs = [k \in {} |-> ""]
  /\ queue = [m \in {} |-> 0]
  /\ issued = {}
  /\ clock = 0
  /\ acc = AccIdle
  /\ wk = [w \in Workers |-> WkIdle]
  /\ cachedApiKey = [w \in Workers |-> NoKey]
  /\ timeouts = 0
  /\ foreign = 0

\* ------------------------------------------------------------ environment
Tick ==
  /\ clock < MaxClock
  /\ clock' = clock + 1
  /\ UNCHANGED << store, blobs, queue, issued, acc, wk, cachedApiKey, timeouts, foreign >>

\* SendMessage: a new message, visible, never received
SqsSend(q, body, sender) ==
  [m \in DOMAIN q \cup {Cardinality(DOMAIN q) + 1} |->
     IF m \in DOMAIN q THEN q[m]
     ELSE [body |-> body, sender |-> sender, rc |-> 0, st |-> "visible", holder |-> ""]]

\* the bodies a sender other than Accept puts on the queue
ForeignBodies ==
  { MsgBody("invalid", NoId, Undefined),
    MsgBody("object", NoId, Str(1)) }
  \cup { MsgBody("object", t, Undefined) : t \in DOMAIN store \cup {GhostId} }

ForeignSend ==
  /\ foreign < MaxForeign
  /\ \E b \in ForeignBodies : queue' = SqsSend(queue, b, "foreign")
  /\ foreign' = foreign + 1
  /\ UNCHANGED << store, blobs, issued, clock, acc, wk, cachedApiKey, timeouts >>

\* the visibility timeout of a message in flight expires
VisibilityTimeout ==
  /\ timeouts < MaxTimeouts
  /\ \E m \in DOMAIN queue :
       /\ queue[m].st = "inflight"
       /\ queue' = [queue EXCEPT ![m].st = "visible"]
  /\ timeouts' = timeouts + 1
  /\ UNCHANGED << store, blobs, issued, clock, acc, wk, cachedApiKey, foreign >>

\* the redrive policy: a visible message already received maxReceiveCount
\* times goes to the dead-letter queue instead of being delivered
Redrive ==
  /\ \E m \in DOMAIN queue :
       /\ queue[m].st = "visible"
       /\ queue[m].rc >= MaxReceiveCount
       /\ queue' = [queue EXCEPT ![m].st = "dlq"]
  /\ UNCHANGED << store, blobs, issued, clock, acc, wk, cachedApiKey, timeouts, foreign >>

\* ------------------------------------------------------- accept handler
QueuedMessage == "Research task queued for processing"

\* mutant: the same id on every call
RandomUUID_Repeats(used) == "t1"

\* randomUUID(): an id never returned before
RandomUUID(used) == "t" \o ToString(Cardinality(used) + 1)

\* { statusCode, body }: the body's taskId, status and message, or its error
Resp(code, taskId, status, error) ==
  [statusCode |-> code, taskId |-> taskId, status |-> status,
   message |-> IF code = 202 THEN QueuedMessage ELSE "", error |-> error]

\* the handler up to its first await
A_Invoke ==
  /\ acc.pc = "idle"
  /\ \E b \in RequestBodies :
       LET v == ValidateRequest(b) IN
       IF v.code # 0
       THEN /\ acc' = [AccIdle EXCEPT !.pc = "done", !.body = b,
                         !.resp = Resp(v.code, NoId, "", v.error)]
            /\ UNCHANGED issued
       ELSE /\ Cardinality(issued) < MaxTasks
            /\ acc' = [AccIdle EXCEPT !.pc = "put", !.body = b,
                         !.taskId = RandomUUID(issued),
                         !.topic = ParseRequest(b).topic, !.now = clock]
            /\ issued' = issued \cup {RandomUUID(issued)}
  /\ UNCHANGED << store, blobs, queue, clock, wk, cachedApiKey, timeouts, foreign >>

PendingItem(taskId, topic, now) ==
  [taskId |-> taskId, status |-> "pending", topic |-> topic,
   createdAt |-> now, updatedAt |-> now]

\* mutant: the failure of the PutCommand is swallowed, the publish follows
A_Put_Swallows ==
  /\ acc.pc = "put"
  /\ \/ /\ store' = DdbPut(store, PendingItem(acc.taskId, acc.topic, acc.now))
        /\ acc' = [acc EXCEPT !.pc = "send",
                     !.calls = Append(@, Call("PutCommand", acc.taskId, "pending", TRUE))]
     \/ /\ acc' = [acc EXCEPT !.pc = "send",
                     !.calls = Append(@, Call("PutCommand", acc.taskId, "pending", FALSE))]
        /\ UNCHANGED store
  /\ UNCHANGED << blobs, queue, issued, clock, wk, cachedApiKey, timeouts, foreign >>

\* mutant: the record is written only after the publish was attempted
A_Put_NoWrite ==
  /\ acc.pc = "put"
  /\ acc' = [acc EXCEPT !.pc = "send"]
  /\ UNCHANGED << store, blobs, queue, issued, clock, wk, cachedApiKey, timeouts, foreign >>

\* await docClient.send(new PutCommand(...))
A_Put ==
  /\ acc.pc = "put"
  /\ \/ /\ store' = DdbPut(store, PendingItem(acc.taskId, acc.topic, acc.now))
        /\ acc' = [acc EXCEPT !.pc = "send",
                     !.calls = Append(@, Call("PutCommand", acc.taskId, "pending", TRUE))]
     \/ /\ acc' = [acc EXCEPT !.pc = "done",
                     !.calls = Append(@, Call("PutCommand", acc.taskId, "pending", FALSE)),
                     !.resp = Resp(500, NoId, "", ErrCreate)]
        /\ UNCHANGED store
  /\ UNCHANGED << blobs, queue, issued, clock, wk, cachedApiKey, timeouts, foreign >>

\* mutant: the publish is reported as failed after the work item was enqueued
A_Send_FailsAfterEnqueue ==
  /\ acc.pc = "send"
  /\ \/ /\ queue' = SqsSend(queue, WorkItem(acc.taskId, acc.topic), "accept")
        /\ acc' = [acc EXCEPT !.pc = "done",
                     !.calls = Append(@, Call("SendMessageCommand", acc.taskId, "", TRUE)),
                     !.resp = Resp(202, acc.taskId, "pending", "")]
     \/ /\ queue' = SqsSend(queue, WorkItem(acc.taskId, acc.topic), "accept")
        /\ acc' = [acc EXCEPT !.pc = "compensate", !.updateNow = clock,
                     !.calls = Append(@, Call("SendMessageCommand", acc.taskId, "", FALSE))]
  /\ UNCHANGED << store, blobs, issued, clock, wk, cachedApiKey, timeouts, foreign >>

\* await sqsClient.send(new SendMessageCommand(...))
A_Send ==
  /\ acc.pc = "send"
  /\ \/ /\ queue' = SqsSend(queue, WorkItem(acc.taskId, acc.topic), "accept")
        /\ acc' = [acc EXCEPT !.pc = "done",
                     !.calls = Append(@, Call("SendMessageCommand", acc.taskId, "", TRUE)),
                     !.resp = Resp(202, acc.taskId, "pending", "")]
     \/ /\ acc' = [acc EXCEPT !.pc = "compensate", !.updateNow = clock,
                     !.calls = Append(@, Call("SendMessageCommand", acc.taskId, "", FALSE))]
        /\ UNCHANGED queue
  /\ UNCHANGED << store, blobs, issued, clock, wk, cachedApiKey, timeouts, foreign >>

\* mutant: the catch of the publish answers 500 without the update
A_Compensate_Skips ==
  /\ acc.pc = "compensate"
  /\ acc' = [acc EXCEPT !.pc = "done", !.resp = Resp(500, NoId, "", ErrPublish)]
  /\ UNCHANGED << store, blobs, queue, issued, clock, wk, cachedApiKey, timeouts, foreign >>

\* mutant: the failure of the compensating update escapes the handler
A_Compensate_Rethrows ==
  /\ acc.pc = "compensate"
  /\ \/ /\ store' = DdbUpdate(store, acc.taskId,
                      StatusFields("failed", acc.updateNow, [error |-> ErrPublish]))
        /\ acc' = [acc EXCEPT !.pc = "done",
                     !.calls = Append(@, Call("UpdateCommand", "failed", ErrPublish, TRUE)),
                     !.resp = Resp(500, NoId, "", ErrPublish)]
     \/ /\ acc' = [acc EXCEPT !.pc = "done",
                     !.calls = Append(@, Call("UpdateCommand", "failed", ErrPublish, FALSE)),
                     !.resp = NoResp]
        /\ UNCHANGED store
  /\ UNCHANGED << blobs, queue, issued, clock, wk, cachedApiKey, timeouts, foreign >>

\* the UpdateCommand in the catch of the publish; the handler answers 500
\* whether or not it succeeds
A_Compensate ==
  /\ acc.pc = "compensate"
  /\ \/ /\ store' = DdbUpdate(store, acc.taskId,
                      StatusFields("failed", acc.updateNow, [error |-> ErrPublish]))
        /\ acc' = [acc EXCEPT !.pc = "done",
                     !.calls = Append(@, Call("UpdateCommand", "failed", ErrPublish, TRUE)),
                     !.resp = Resp(500, NoId, "", ErrPublish)]
     \/ /\ acc' = [acc EXCEPT !.pc = "done",
                     !.calls = Append(@, Call("UpdateCommand", "failed", ErrPublish, FALSE)),
                     !.resp = Resp(500, NoId, "", ErrPublish)]
        /\ UNCHANGED store
  /\ UNCHANGED << blobs, queue, issued, clock, wk, cachedApiKey, timeouts, foreign >>

\* the response has been delivered; the next request may come
A_Return ==
  /\ acc.pc = "done"
  /\ acc' = AccIdle
  /\ UNCHANGED << store, blobs, queue, issued, clock, wk, cachedApiKey, timeouts, foreign >>

\* ------------------------------------------------------- worker handler
\* JSON.parse(record.body) and the reads of taskId and topic: "parseError"
\* when the try around them throws
ParseMessage(b) ==
  IF b.raw = "invalid"
  THEN [outcome |-> "parseError", taskId |-> NoId, topic |-> Undefined]
  ELSE [outcome |-> "ok", taskId |-> b.taskId, topic |-> b.topic]

Finished(w, outcome, error, result) ==
  [w EXCEPT !.pc = "done", !.outcome = outcome, !.error = error, !.result = result]

\* mutant: the error is thrown on without the update to failed
Caught_NoMark(w, call, err) ==
  Finished([w EXCEPT !.err = err, !.calls = Append(@, call)], "threw", err, ResultUndefined)

\* mutant: the failed call is logged and the step is tried again
Caught_Retries(w, call, err) ==
  [w EXCEPT !.calls = Append(@, call)]

\* the failure branch: the catch block runs next with the caught error
Caught(w, call, err) ==
  [w EXCEPT !.pc = "markFailed", !.err = err, !.now = clock,
            !.calls = Append(@, call)]

\* mutant: a body without taskId is not stopped
FirstStep_NoTaskIdCheck(p) ==
  CASE p.outcome = "parseError" -> "throwMalformed"
    [] ~Truthy(p.topic)         -> "markMissing"
    [] OTHER                    -> "get"

\* mutant: a body without topic goes on to the research
FirstStep_NoTopicCheck(p) ==
  CASE p.outcome = "parseError" -> "throwMalformed"
    [] p.taskId = NoId          -> "throwNoTaskId"
    [] OTHER                    -> "get"

\* the checks between the parse and the first await: where the handler goes
FirstStep(p) ==
  CASE p.outcome = "parseError" -> "throwMalformed"
    [] p.taskId = NoId          -> "throwNoTaskId"
    [] ~Truthy(p.topic)         -> "markMissing"
    [] OTHER                    -> "get"

\* the status the record of a key has, "" when there is none
StatusOf(st, key) ==
  IF key \in DOMAIN st /\ "status" \in DOMAIN st[key] THEN st[key].status ELSE ""

\* a delivery: the event source receives a visible message and invokes the
\* handler, which runs up to its first await
W_Invoke(w) ==
  /\ wk[w].pc = "idle"
  /\ \E m \in DOMAIN queue :
       /\ queue[m].st = "visible"
       /\ queue[m].rc < MaxReceiveCount
       /\ queue' = [queue EXCEPT ![m].st = "inflight", ![m].rc = @ + 1,
                                 ![m].holder = w]
       /\ LET p  == ParseMessage(queue[m].body)
              w0 == [WkIdle EXCEPT !.msg = m, !.taskId = p.taskId, !.topic = p.topic,
                                   !.atDelivery = StatusOf(store, p.taskId)]
              s  == FirstStep(p)
          IN  wk' = [wk EXCEPT ![w] =
                CASE s = "throwMalformed" ->
                       Finished(w0, "threw", ErrMalformed, ResultUndefined)
                  [] s = "throwNoTaskId" ->
                       Finished(w0, "threw", ErrNoTaskId, ResultUndefined)
                  [] s = "markMissing" -> [w0 EXCEPT !.pc = s, !.now = clock]
                  [] OTHER -> [w0 EXCEPT !.pc = s]]
  /\ UNCHANGED << store, blobs, issued, clock, acc, cachedApiKey, timeouts, foreign >>

\* mutant: without the check, reading event.Records[0] throws
W_InvokeEmpty_Throws(w) ==
  /\ wk[w].pc = "idle"
  /\ wk' = [wk EXCEPT ![w] =
              Finished(WkIdle, "threw", "Cannot read properties of undefined", ResultUndefined)]
  /\ UNCHANGED << store, blobs, queue, issued, clock, acc, cachedApiKey, timeouts, foreign >>

\* an invocation with an event that has no Records
W_InvokeEmpty(w) ==
  /\ wk[w].pc = "idle"
  /\ wk' = [wk EXCEPT ![w] = Finished(WkIdle, "returned", "", ResultUndefined)]
  /\ UNCHANGED << store, blobs, queue, issued, clock, acc, cachedApiKey, timeouts, foreign >>

\* mutant: the failure of the update escapes the missing-topic branch
W_MarkMissingTopic_Throws(w) ==
  /\ wk[w].pc = "markMissing"
  /\ \/ /\ store' = updateTaskStatus(store, wk[w].taskId, "failed", wk[w].now, [error |-> ErrNoTopic])
        /\ wk' = [wk EXCEPT ![w] =
                    Finished([@ EXCEPT !.calls = Append(@, Call("UpdateCommand", "failed", ErrNoTopic, TRUE))],
                             "returned", "", ResultUndefined)]
     \/ /\ wk' = [wk EXCEPT ![w] =
                    Finished([@ EXCEPT !.calls = Append(@, Call("UpdateCommand", "failed", ErrNoTopic, FALSE))],
                             "threw", ErrUpdate, ResultUndefined)]
        /\ UNCHANGED store
  /\ UNCHANGED << blobs, queue, issued, clock, acc, cachedApiKey, timeouts, foreign >>

\* the missing-topic branch: updateTaskStatus(taskId, "failed", ...) in its
\* own try; the handler returns whether or not it succeeds
W_MarkMissingTopic(w) ==
  /\ wk[w].pc = "markMissing"
  /\ \/ /\ store' = updateTaskStatus(store, wk[w].taskId, "failed", wk[w].now, [error |-> ErrNoTopic])
        /\ wk' = [wk EXCEPT ![w] =
                    Finished([@ EXCEPT !.calls = Append(@, Call("UpdateCommand", "failed", ErrNoTopic, TRUE))],
                             "returned", "", ResultUndefined)]
     \/ /\ wk' = [wk EXCEPT ![w] =
                    Finished([@ EXCEPT !.calls = Append(@, Call("UpdateCommand", "failed", ErrNoTopic, FALSE))],
                             "returned", "", ResultUndefined)]
        /\ UNCHANGED store
  /\ UNCHANGED << blobs, queue, issued, clock, acc, cachedApiKey, timeouts, foreign >>

\* mutant: no idempotency guard
AlreadyResearched_Never(st, taskId) == FALSE

\* mutant: the guard also stops the delivery of a task marked failed
AlreadyResearched_OrFailed(st, taskId) ==
  taskId \in DOMAIN st /\ StatusOf(st, taskId) \in {"researched", "failed"}

\* mutant: status researching is taken as another delivery's lock
AlreadyResearched_OrResearching(st, taskId) ==
  taskId \in DOMAIN st /\ StatusOf(st, taskId) \in {"researched", "researching"}

\* the idempotency guard: GetCommand, then the test on existing.Item
AlreadyResearched(st, taskId) ==
  taskId \in DOMAIN st /\ StatusOf(st, taskId) = "researched"

W_Get(w) ==
  /\ wk[w].pc = "get"
  /\ \/ wk' = [wk EXCEPT ![w] =
                 LET c == [@ EXCEPT !.calls = Append(@, Call("GetCommand", wk[w].taskId, StatusOf(store, wk[w].taskId), TRUE))] IN
                 IF AlreadyResearched(store, wk[w].taskId)
                 THEN Finished(c, "returned", "",
                               [taskId |-> wk[w].taskId, status |-> "already_researched"])
                 ELSE [c EXCEPT !.pc = "researching", !.now = clock]]
     \/ wk' = [wk EXCEPT ![w] = Caught(@, Call("GetCommand", wk[w].taskId, "", FALSE), ErrGet)]
  /\ UNCHANGED << store, blobs, queue, issued, clock, acc, cachedApiKey, timeouts, foreign >>

\* mutant: the update to researching resets the error of the last attempt
W_SetResearching_ClearsError(w) ==
  /\ wk[w].pc = "researching"
  /\ \/ /\ store' = updateTaskStatus(store, wk[w].taskId, "researching", wk[w].now, [error |-> ""])
        /\ wk' = [wk EXCEPT ![w].pc = "secret",
                            ![w].calls = Append(@, Call("UpdateCommand", "researching", "", TRUE))]
     \/ /\ wk' = [wk EXCEPT ![w] = Caught(@, Call("UpdateCommand", "researching", "", FALSE), ErrUpdate)]
        /\ UNCHANGED store
  /\ UNCHANGED << blobs, queue, issued, clock, acc, cachedApiKey, timeouts, foreign >>

\* await updateTaskStatus(taskId, "researching")
W_SetResearching(w) ==
  /\ wk[w].pc = "researching"
  /\ \/ /\ store' = updateTaskStatus(store, wk[w].taskId, "researching", wk[w].now, NoExtra)
        /\ wk' = [wk EXCEPT ![w].pc = "secret",
                            ![w].calls = Append(@, Call("UpdateCommand", "researching", "", TRUE))]
     \/ /\ wk' = [wk EXCEPT ![w] = Caught(@, Call("UpdateCommand", "researching", "", FALSE), ErrUpdate)]
        /\ UNCHANGED store
  /\ UNCHANGED << blobs, queue, issued, clock, acc, cachedApiKey, timeouts, foreign >>

\* mutant: the secret is fetched on every invocation
getAnthropicApiKey_NoCache(w) ==
  /\ wk[w].pc = "secret"
  /\ \/ /\ cachedApiKey' = [cachedApiKey EXCEPT ![w] = SecretString]
        /\ wk' = [wk EXCEPT ![w].pc = "provider",
                            ![w].calls = Append(@, Call("GetSecretValueCommand", "", "", TRUE))]
     \/ /\ wk' = [wk EXCEPT ![w] = Caught(@, Call("GetSecretValueCommand", "", "", FALSE), ErrSecret)]
        /\ UNCHANGED cachedApiKey
  /\ UNCHANGED << store, blobs, queue, issued, clock, acc, timeouts, foreign >>

\* await getAnthropicApiKey(): the cached key, else GetSecretValueCommand
getAnthropicApiKey(w) ==
  /\ wk[w].pc = "secret"
  /\ IF cachedApiKey[w] # NoKey
     THEN /\ wk' = [wk EXCEPT ![w].pc = "provider"]
          /\ UNCHANGED cachedApiKey
     ELSE \/ /\ cachedApiKey' = [cachedApiKey EXCEPT ![w] = SecretString]
             /\ wk' = [wk EXCEPT ![w].pc = "provider",
                                 ![w].calls = Append(@, Call("GetSecretValueCommand", "", "", TRUE))]
          \/ /\ wk' = [wk EXCEPT ![w] = Caught(@, Call("GetSecretValueCommand", "", "", FALSE), ErrSecret)]
             /\ UNCHANGED cachedApiKey
  /\ UNCHANGED << store, blobs, queue, issued, clock, acc, timeouts, foreign >>

\* mutant: the text goes to the record without the blob write
W_CallProvider_SkipsBlob(w) ==
  /\ wk[w].pc = "provider"
  /\ \/ \E r \in Responses :
          LET i == FindTextBlock(r) IN
          wk' = [wk EXCEPT ![w] =
                   IF i = 0
                   THEN Caught([@ EXCEPT !.response = r],
                               Call("messages.create", "", "no text", TRUE), ErrNoText)
                   ELSE [@ EXCEPT !.pc = "researched", !.now = clock, !.response = r, !.content = r[i].text,
                                  !.calls = Append(@, Call("messages.create", "", "text", TRUE))]]
     \/ wk' = [wk EXCEPT ![w] = Caught(@, Call("messages.create", "", "", FALSE), ErrProvider)]
  /\ UNCHANGED << store, blobs, queue, issued, clock, acc, cachedApiKey, timeouts, foreign >>

\* await anthropicInstance.messages.create(...), then the text block
W_CallProvider(w) ==
  /\ wk[w].pc = "provider"
  /\ \/ \E r \in Responses :
          LET i == FindTextBlock(r) IN
          wk' = [wk EXCEPT ![w] =
                   IF i = 0
                   THEN Caught([@ EXCEPT !.response = r],
                               Call("messages.create", "", "no text", TRUE), ErrNoText)
                   ELSE [@ EXCEPT !.pc = "putObject", !.response = r, !.content = r[i].text,
                                  !.calls = Append(@, Call("messages.create", "", "text", TRUE))]]
     \/ wk' = [wk EXCEPT ![w] = Caught(@, Call("messages.create", "", "", FALSE), ErrProvider)]
  /\ UNCHANGED << store, blobs, queue, issued, clock, acc, cachedApiKey, timeouts, foreign >>

\* mutant: the failure of the PutObjectCommand is swallowed
W_PutObject_Swallows(w) ==
  /\ wk[w].pc = "putObject"
  /\ LET key == S3KeyOf(wk[w].taskId) IN
     \/ /\ blobs' = S3Put(blobs, key, wk[w].content)
        /\ wk' = [wk EXCEPT ![w].pc = "researched", ![w].now = clock,
                            ![w].calls = Append(@, Call("PutObjectCommand", key, wk[w].content, TRUE))]
     \/ /\ wk' = [wk EXCEPT ![w].pc = "researched", ![w].now = clock,
                            ![w].calls = Append(@, Call("PutObjectCommand", key, wk[w].content, FALSE))]
        /\ UNCHANGED blobs
  /\ UNCHANGED << store, queue, issued, clock, acc, cachedApiKey, timeouts, foreign >>

\* await s3Client.send(new PutObjectCommand(...))
W_PutObject(w) ==
  /\ wk[w].pc = "putObject"
  /\ LET key == S3KeyOf(wk[w].taskId) IN
     \/ /\ blobs' = S3Put(blobs, key, wk[w].content)
        /\ wk' = [wk EXCEPT ![w].pc = "researched", ![w].now = clock,
                            ![w].calls = Append(@, Call("PutObjectCommand", key, wk[w].content, TRUE))]
     \/ /\ wk' = [wk EXCEPT ![w] = Caught(@, Call("PutObjectCommand", key, wk[w].content, FALSE), ErrS3)]
        /\ UNCHANGED blobs
  /\ UNCHANGED << store, queue, issued, clock, acc, cachedApiKey, timeouts, foreign >>

\* await updateTaskStatus(taskId, "researched", { s3Key }), then the return
W_SetResearched(w) ==
  /\ wk[w].pc = "researched"
  /\ LET key == S3KeyOf(wk[w].taskId) IN
     \/ /\ store' = updateTaskStatus(store, wk[w].taskId, "researched", wk[w].now, [s3Key |-> key])
        /\ wk' = [wk EXCEPT ![w] =
                    Finished([@ EXCEPT !.calls = Append(@, Call("UpdateCommand", "researched", key, TRUE))],
                             "returned", "",
                             [taskId |-> wk[w].taskId, s3Key |-> key, status |-> "researched"])]
     \/ /\ wk' = [wk EXCEPT ![w] = Caught(@, Call("UpdateCommand", "researched", key, FALSE), ErrUpdate)]
        /\ UNCHANGED store
  /\ UNCHANGED << blobs, queue, issued, clock, acc, cachedApiKey, timeouts, foreign >>

\* mutant: the catch block records the failure and returns
W_MarkFailed_Swallows(w) ==
  /\ wk[w].pc = "markFailed"
  /\ \/ /\ store' = updateTaskStatus(store, wk[w].taskId, "failed", wk[w].now, [error |-> wk[w].err])
        /\ wk' = [wk EXCEPT ![w] =
                    Finished([@ EXCEPT !.calls = Append(@, Call("UpdateCommand", "failed", wk[w].err, TRUE))],
                             "returned", "", ResultUndefined)]
     \/ /\ wk' = [wk EXCEPT ![w] =
                    Finished([@ EXCEPT !.calls = Append(@, Call("UpdateCommand", "failed", wk[w].err, FALSE))],
                             "returned", "", ResultUndefined)]
        /\ UNCHANGED store
  /\ UNCHANGED << blobs, queue, issued, clock, acc, cachedApiKey, timeouts, foreign >>

\* mutant: the error of the failed status update replaces the original
W_MarkFailed_ThrowsSecondary(w) ==
  /\ wk[w].pc = "markFailed"
  /\ \/ /\ store' = updateTaskStatus(store, wk[w].taskId, "failed", wk[w].now, [error |-> wk[w].err])
        /\ wk' = [wk EXCEPT ![w] =
                    Finished([@ EXCEPT !.calls = Append(@, Call("UpdateCommand", "failed", wk[w].err, TRUE))],
                             "threw", wk[w].err, ResultUndefined)]
     \/ /\ wk' = [wk EXCEPT ![w] =
                    Finished([@ EXCEPT !.calls = Append(@, Call("UpdateCommand", "failed", wk[w].err, FALSE))],
                             "threw", ErrMarkFailed, ResultUndefined)]
        /\ UNCHANGED store
  /\ UNCHANGED << blobs, queue, issued, clock, acc, cachedApiKey, timeouts, foreign >>

\* the catch block: updateTaskStatus(taskId, "failed", { error: error.message })
\* in its own try, then throw error
W_MarkFailed(w) ==
  /\ wk[w].pc = "markFailed"
  /\ \/ /\ store' = updateTaskStatus(store, wk[w].taskId, "failed", wk[w].now, [error |-> wk[w].err])
        /\ wk' = [wk EXCEPT ![w] =
                    Finished([@ EXCEPT !.calls = Append(@, Call("UpdateCommand", "failed", wk[w].err, TRUE))],
                             "threw", wk[w].err, ResultUndefined)]
     \/ /\ wk' = [wk EXCEPT ![w] =
                    Finished([@ EXCEPT !.calls = Append(@, Call("UpdateCommand", "failed", wk[w].err, FALSE))],
                             "threw", wk[w].err, ResultUndefined)]
        /\ UNCHANGED store
  /\ UNCHANGED << blobs, queue, issued, clock, acc, cachedApiKey, timeouts, foreign >>

\* mutant: the message of an invocation that returned is released, not
\* deleted
W_Complete_KeepsOnReturn(w) ==
  /\ wk[w].pc = "done"
  /\ LET m == wk[w].msg IN
     queue' = IF m \notin DOMAIN queue \/ queue[m].st \in {"deleted", "dlq"}
              THEN queue
              ELSE IF queue[m].st = "inflight" /\ queue[m].holder = w
              THEN [queue EXCEPT ![m].st = "visible"]
              ELSE queue
  /\ wk' = [wk EXCEPT ![w] = WkIdle]
  /\ UNCHANGED << store, blobs, issued, clock, acc, cachedApiKey, timeouts, foreign >>

\* the event source acts on the outcome: a normal return deletes the
\* message, a throw makes it visible again for the next receive
W_Complete(w) ==
  /\ wk[w].pc = "done"
  /\ LET m == wk[w].msg IN
     queue' = IF m \notin DOMAIN queue \/ queue[m].st \in {"deleted", "dlq"}
              THEN queue
              ELSE IF wk[w].outcome = "returned"
              THEN [queue EXCEPT ![m].st = "deleted"]
              ELSE IF queue[m].st = "inflight" /\ queue[m].holder = w
              THEN [queue EXCEPT ![m].st = "visible"]
              ELSE queue
  /\ wk' = [wk EXCEPT ![w] = WkIdle]
  /\ UNCHANGED << store, blobs, issued, clock, acc, cachedApiKey, timeouts, foreign >>

\* ------------------------------------------------------------------ spec
\* The pipeline follows one task from its request to its end, with two
\* worker processes and the queue's redelivery; requests arrive until the
\* first one passes validation.  Accept is the only sender, so every body on
\* the queue has a taskId and a topic.
A_InvokeFirst == issued = {} /\ A_Invoke

Next ==
  \/ VisibilityTimeout
  \/ Redrive
  \/ A_InvokeFirst
  \/ A_Put
  \/ A_Send
  \/ A_Compensate
  \/ A_Return
  \/ \E w \in Workers :
       \/ W_Invoke(w)
       \/ W_Get(w)
       \/ W_SetResearching(w)
       \/ getAnthropicApiKey(w)
       \/ W_CallProvider(w)
       \/ W_PutObject(w)
       \/ W_SetResearched(w)
       \/ W_MarkFailed(w)
       \/ W_Complete(w)

Spec == Init /\ [][Next]_vars

\* The pipeline when the event source keeps polling and every invocation
\* it starts runs to its end: no step of a worker, no delivery and no move
\* to the dead-letter queue stays possible forever without being taken.
Fairness ==
  /\ WF_vars(Redrive)
  /\ \A w \in Workers :
       /\ WF_vars(W_Invoke(w))
       /\ WF_vars(W_Get(w))
       /\ WF_vars(W_SetResearching(w))
       /\ WF_vars(getAnthropicApiKey(w))
       /\ WF_vars(W_CallProvider(w))
       /\ WF_vars(W_PutObject(w))
       /\ WF_vars(W_SetResearched(w))
       /\ WF_vars(W_MarkFailed(w))
       /\ WF_vars(W_Complete(w))

SpecFair == Spec /\ Fairness

\* The accept handler alone, request after request, while time passes.
NextAccept ==
  \/ Tick
  \/ A_Invoke
  \/ A_Put
  \/ A_Send
  \/ A_Compensate
  \/ A_Return

SpecAccept == Init /\ [][NextAccept]_vars

\* One worker process fed by Accept and by a foreign sender.
NextForeign ==
  \/ ForeignSend
  \/ Redrive
  \/ A_InvokeFirst
  \/ A_Put
  \/ A_Send
  \/ A_Compensate
  \/ A_Return
  \/ W_Invoke("w1")
  \/ W_InvokeEmpty("w1")
  \/ W_MarkMissingTopic("w1")
  \/ W_Get("w1")
  \/ W_SetResearching("w1")
  \/ getAnthropicApiKey("w1")
  \/ W_CallProvider("w1")
  \/ W_PutObject("w1")
  \/ W_SetResearched("w1")
  \/ W_MarkFailed("w1")
  \/ W_Complete("w1")

SpecForeign == Init /\ [][NextForeign]_vars

\* Task after task through one worker process: the next request arrives
\* when the queue is drained and every task so far has been researched.
A_InvokeNext ==
  /\ \A m \in DOMAIN queue : queue[m].st \in {"deleted", "dlq"}
  /\ \A t \in DOMAIN store : StatusOf(store, t) = "researched"
  /\ wk["w1"].pc = "idle"
  /\ A_Invoke

NextTasks ==
  \/ Redrive
  \/ A_InvokeNext
  \/ A_Put
  \/ A_Send
  \/ A_Compensate
  \/ A_Return
  \/ W_Invoke("w1")
  \/ W_Get("w1")
  \/ W_SetResearching("w1")
  \/ getAnthropicApiKey("w1")
  \/ W_CallProvider("w1")
  \/ W_PutObject("w1")
  \/ W_SetResearched("w1")
  \/ W_MarkFailed("w1")
  \/ W_Complete("w1")

SpecTasks == Init /\ [][NextTasks]_vars

\* =================================================================
\* Properties
\* =================================================================

\* the messages on the queue, in flight, deleted or dead-lettered whose
\* body names the task
MessagesFor(t) == { m \in DOMAIN queue : queue[m].body.taskId = t }

AcceptDone     == acc.pc = "done"
AcceptCallOk(i)     == Len(acc.calls) >= i /\ acc.calls[i].ok
AcceptCallFailed(i) == Len(acc.calls) >= i /\ ~acc.calls[i].ok

\* C1: write-then-publish.  Every work item Accept has published, whatever
\* has become of it since (visible, in flight, deleted, dead-lettered), names
\* a taskId whose record exists in the Task Store, and a publish is attempted
\* only right after the successful PutCommand of that task.
C1_WriteThenPublish ==
  /\ \A m \in DOMAIN queue :
       queue[m].sender = "accept" => queue[m].body.taskId \in DOMAIN store
  /\ \A i \in 1..Len(acc.calls) :
       acc.calls[i].op = "SendMessageCommand" =>
         /\ i > 1
         /\ acc.calls[i - 1] = Call("PutCommand", acc.taskId, "pending", TRUE)
         /\ acc.taskId \in DOMAIN store

\* a work item of Accept has been through its deliveries and is dead-lettered
C1_Witness ==
  \E m \in DOMAIN queue :
    /\ queue[m].sender = "accept"
    /\ queue[m].st = "dlq"
    /\ queue[m].body.taskId \in DOMAIN store

\* a topic that is a non-empty string of at most 500 characters
ValidTopicBody(b) ==
  /\ b.raw = "object"
  /\ b.topic.type = "string"
  /\ b.topic.n >= 1
  /\ b.topic.n <= 500

\* C2: a request with a valid topic whose store write and publish both
\* succeed is answered 202 {taskId, status: "pending"}; the taskId is fresh
\* (no other request got it: the record and the single work item of that id
\* are this request's), the record is pending with the submitted topic, and
\* exactly one work item {taskId, topic} has been published for it.
C2_AcceptSuccess ==
  (AcceptDone /\ ValidTopicBody(acc.body) /\ \A i \in 1..Len(acc.calls) : acc.calls[i].ok)
  => /\ acc.resp.statusCode = 202
     /\ acc.resp.taskId = acc.taskId
     /\ acc.resp.status = "pending"
     /\ acc.resp.error = ""
     /\ acc.taskId \in TaskIds
     /\ acc.calls = << Call("PutCommand", acc.taskId, "pending", TRUE),
                       Call("SendMessageCommand", acc.taskId, "", TRUE) >>
     /\ acc.taskId \in DOMAIN store
     /\ store[acc.taskId].taskId = acc.taskId
     /\ store[acc.taskId].status = "pending"
     /\ store[acc.taskId].topic = acc.body.topic
     /\ MessagesFor(acc.taskId) # {}
     /\ \A m \in MessagesFor(acc.taskId) :
          /\ queue[m].body = WorkItem(acc.taskId, acc.body.topic)
          /\ queue[m].sender = "accept"
     /\ Cardinality(MessagesFor(acc.taskId)) = 1

\* the second request is accepted with a 500-character topic
C2_Witness ==
  /\ AcceptDone
  /\ acc.resp.statusCode = 202
  /\ acc.body.topic = Str(500)
  /\ Cardinality(DOMAIN store) = 2
  /\ Cardinality(DOMAIN queue) = 2

\* the requests C3 speaks of: the body cannot be parsed, the topic is absent
\* or not a string, or the topic is longer than 500 characters
RejectedByClaim(b) ==
  \/ b.raw = "invalid"
  \/ b.raw \in {"absent", "null", "scalar"}
  \/ b.raw = "object" /\ b.topic.type # "string"
  \/ b.raw = "object" /\ b.topic.type = "string" /\ b.topic.n > 500

\* C3: such a request is answered 400 and the handler makes no external
\* call at all (no record created or modified, no work item published).
C3_Rejects400 ==
  (AcceptDone /\ RejectedByClaim(acc.body))
  => /\ acc.resp.statusCode = 400
     /\ acc.calls = << >>

\* C4: when the PutCommand fails the handler answers 500 and makes no other
\* call: no publish and no further store write; there is no record and no
\* work item of that taskId.
C4_PutFailure ==
  (AcceptDone /\ AcceptCallFailed(1))
  => /\ acc.resp.statusCode = 500
     /\ acc.resp.error = ErrCreate
     /\ acc.calls = << Call("PutCommand", acc.taskId, "pending", FALSE) >>
     /\ MessagesFor(acc.taskId) = {}
     /\ acc.taskId \notin DOMAIN store

\* the second request's PutCommand failed after the first was accepted
C4_Witness ==
  /\ AcceptDone
  /\ AcceptCallFailed(1)
  /\ Cardinality(DOMAIN queue) = 1

PublishFailed ==
  /\ AcceptDone
  /\ AcceptCallOk(1)
  /\ AcceptCallFailed(2)
  /\ acc.calls[2].op = "SendMessageCommand"

\* C5 as claimed: after a failed publish the record ends in status failed
C5_AsClaimed ==
  PublishFailed
  => /\ acc.resp.statusCode = 500
     /\ MessagesFor(acc.taskId) = {}
     /\ Len(acc.calls) = 3
     /\ acc.calls[3].op = "UpdateCommand"
     /\ store[acc.taskId].status = "failed"

\* C5 (amended): after a failed publish the handler issues exactly one
\* compensating UpdateCommand (status failed, error "Failed to place message
\* on queue"), answers 500, and no work item exists for the taskId; the
\* record ends in status failed with that error when the update succeeds.
C5_Compensation ==
  PublishFailed
  => /\ acc.resp.statusCode = 500
     /\ acc.resp.error = ErrPublish
     /\ MessagesFor(acc.taskId) = {}
     /\ Len(acc.calls) = 3
     /\ acc.calls[3].op = "UpdateCommand"
     /\ acc.calls[3].arg = "failed"
     /\ acc.calls[3].detail = ErrPublish
     /\ acc.taskId \in DOMAIN store
     /\ acc.calls[3].ok =>
          /\ store[acc.taskId].status = "failed"
          /\ store[acc.taskId].error = ErrPublish
          /\ store[acc.taskId].topic = acc.body.topic

C5_Witness ==
  /\ PublishFailed
  /\ AcceptCallOk(3)
  /\ store[acc.taskId].status = "failed"

\* ----------------------------------------------------------- worker side
WorkerDone(w) == wk[w].pc = "done" /\ wk[w].msg # 0
BodyOf(w)     == queue[wk[w].msg].body

\* the delivered body parses and has both taskId and topic
WellFormed(w) ==
  /\ wk[w].msg # 0
  /\ BodyOf(w).raw = "object"
  /\ BodyOf(w).taskId # NoId
  /\ BodyOf(w).topic.type = "string"
  /\ BodyOf(w).topic.n >= 1

IsMarkFailed(c) == c.op = "UpdateCommand" /\ c.arg = "failed"
IsStoreWrite(c) == c.op \in {"UpdateCommand", "PutCommand"}
IsResearchWork(c) == c.op \in {"GetSecretValueCommand", "messages.create", "PutObjectCommand"}

\* C6 as claimed: a well-formed work item delivered while the record has
\* status researched makes no provider call, no blob write and no store
\* write, and returns {taskId, status: "already_researched"}
C6_AsClaimed ==
  \A w \in Workers :
    (WorkerDone(w) /\ WellFormed(w) /\ wk[w].atDelivery = "researched")
    => /\ wk[w].outcome = "returned"
       /\ wk[w].result = [taskId |-> BodyOf(w).taskId, status |-> "already_researched"]
       /\ \A i \in 1..Len(wk[w].calls) :
            ~IsStoreWrite(wk[w].calls[i]) /\ ~IsResearchWork(wk[w].calls[i])

\* The case of the idempotency guard in which the read succeeds: a delivery
\* whose GetCommand finds the record with status researched makes no other
\* call (no provider call, no blob write, no store write) and returns
\* {taskId, status: "already_researched"}.
C6_Idempotent ==
  \A w \in Workers :
    ( /\ WellFormed(w)
      /\ Len(wk[w].calls) >= 1
      /\ wk[w].calls[1] = Call("GetCommand", BodyOf(w).taskId, "researched", TRUE) )
    => /\ wk[w].pc = "done"
       /\ wk[w].outcome = "returned"
       /\ wk[w].result = [taskId |-> BodyOf(w).taskId, status |-> "already_researched"]
       /\ Len(wk[w].calls) = 1

\* the second delivery of a work item found the record researched and
\* returned at the guard
C6_Witness ==
  \E w \in Workers :
    /\ WorkerDone(w)
    /\ wk[w].atDelivery = "researched"
    /\ queue[wk[w].msg].rc = 2
    /\ wk[w].result = [taskId |-> BodyOf(w).taskId, status |-> "already_researched"]
    /\ store[BodyOf(w).taskId].status = "researched"

\* a step of the try block failed: an external call other than the catch's
\* own update failed, or the provider answered without a text block
StepFailedAt(c, i) ==
  /\ ~IsMarkFailed(c[i])
  /\ \/ ~c[i].ok
     \/ c[i].op = "messages.create" /\ c[i].detail = "no text"

\* the message of the error that step raised
ErrorOfStep(c) ==
  CASE c.op = "GetCommand"             -> ErrGet
    [] c.op = "UpdateCommand"          -> ErrUpdate
    [] c.op = "GetSecretValueCommand"  -> ErrSecret
    [] c.op = "messages.create"        -> IF c.ok THEN ErrNoText ELSE ErrProvider
    [] c.op = "PutObjectCommand"       -> ErrS3
    [] OTHER                           -> ""

MarkFailedCalls(c) == { i \in 1..Len(c) : IsMarkFailed(c[i]) }

\* C7: for a well-formed work item, once a step from the idempotency read
\* to the researched update has failed, the handler's next and last call is
\* the one update to status failed carrying the failing error's message, and
\* the handler throws that same error; when the update succeeds the record
\* has status failed and that error.
C7_FailureRecorded ==
  /\ [](\A w \in Workers :
          (WorkerDone(w) /\ WellFormed(w) /\ \E i \in 1..Len(wk[w].calls) : StepFailedAt(wk[w].calls, i))
          => LET c == wk[w].calls
                 n == Len(c)
             IN  /\ n >= 2
                 /\ StepFailedAt(c, n - 1)
                 /\ \A i \in 1..(n - 2) : ~StepFailedAt(c, i)
                 /\ MarkFailedCalls(c) = {n}
                 /\ c[n].detail = ErrorOfStep(c[n - 1])
                 /\ wk[w].outcome = "threw"
                 /\ wk[w].error = ErrorOfStep(c[n - 1]))
  /\ [][\A w \in Workers :
          ( /\ wk[w].pc # "done"
            /\ wk'[w].pc = "done"
            /\ wk'[w].calls # << >>
            /\ IsMarkFailed(wk'[w].calls[Len(wk'[w].calls)])
            /\ wk'[w].calls[Len(wk'[w].calls)].ok
            /\ wk'[w].outcome = "threw" )
          => /\ store'[wk'[w].taskId].status = "failed"
             /\ store'[wk'[w].taskId].error = wk'[w].error
             /\ blobs' = blobs]_vars

\* the blob write failed, the record was marked failed with its message
C7_Witness ==
  \E w \in Workers :
    /\ WorkerDone(w)
    /\ WellFormed(w)
    /\ Len(wk[w].calls) >= 2
    /\ wk[w].calls[Len(wk[w].calls) - 1].op = "PutObjectCommand"
    /\ ~wk[w].calls[Len(wk[w].calls) - 1].ok
    /\ wk[w].calls[Len(wk[w].calls)].ok
    /\ wk[w].error = ErrS3
    /\ store[wk[w].taskId].status = "failed"
    /\ store[wk[w].taskId].error = ErrS3

\* a step failed and the update to failed failed as well
DoubleFailure(w) ==
  /\ WorkerDone(w)
  /\ WellFormed(w)
  /\ Len(wk[w].calls) >= 2
  /\ StepFailedAt(wk[w].calls, Len(wk[w].calls) - 1)
  /\ IsMarkFailed(wk[w].calls[Len(wk[w].calls)])
  /\ ~wk[w].calls[Len(wk[w].calls)].ok

\* C8: on a double failure the handler still throws, and the error thrown
\* is the one of the step that failed, not the one of the failed update.
C8_DoubleFailure ==
  \A w \in Workers :
    DoubleFailure(w)
    => /\ wk[w].outcome = "threw"
       /\ wk[w].error = ErrorOfStep(wk[w].calls[Len(wk[w].calls) - 1])
       /\ wk[w].error # ErrMarkFailed

\* the provider call failed, then the update to failed failed
C8_Witness ==
  \E w \in Workers :
    /\ DoubleFailure(w)
    /\ wk[w].calls[Len(wk[w].calls) - 1].op = "messages.create"
    /\ wk[w].error = ErrProvider
    /\ store[wk[w].taskId].status = "researching"

\* the body cannot be parsed or has no taskId
Poison(b) == b.raw = "invalid" \/ b.taskId = NoId

\* C9: a delivery of a poison message throws before any external call: the
\* handler is never found past its synchronous checks with such a message.
C9_PoisonThrows ==
  \A w \in Workers :
    (wk[w].msg # 0 /\ Poison(BodyOf(w)))
    => /\ wk[w].pc = "done"
       /\ wk[w].outcome = "threw"
       /\ wk[w].error \in {ErrMalformed, ErrNoTaskId}
       /\ wk[w].calls = << >>

\* the second delivery of a message without taskId has thrown as well
C9_Witness ==
  \E w \in Workers :
    /\ WorkerDone(w)
    /\ BodyOf(w).raw = "object"
    /\ BodyOf(w).taskId = NoId
    /\ queue[wk[w].msg].rc = 2
    /\ wk[w].outcome = "threw"

\* the body has a taskId and no topic
MissingTopic(b) == b.raw = "object" /\ b.taskId # NoId /\ b.topic.type = "undefined"

\* C10 as claimed: the delivery leaves the (existing) task with status
\* failed and returns normally without secret, provider or blob call
C10_AsClaimed ==
  \A w \in Workers :
    (WorkerDone(w) /\ MissingTopic(BodyOf(w)) /\ BodyOf(w).taskId \in DOMAIN store)
    => /\ wk[w].outcome = "returned"
       /\ \A i \in 1..Len(wk[w].calls) : ~IsResearchWork(wk[w].calls[i])
       /\ StatusOf(store, BodyOf(w).taskId) = "failed"

\* C10 (amended): for a body with a taskId and no topic the handler makes
\* exactly one call, the update to status failed with the error "Missing
\* topic in SQS message", and returns normally; the record has status failed
\* and that error when the update succeeds.
C10_MissingTopic ==
  /\ [](\A w \in Workers :
          (wk[w].msg # 0 /\ MissingTopic(BodyOf(w)))
          => /\ wk[w].pc \in {"markMissing", "done"}
             /\ wk[w].pc = "markMissing" => wk[w].calls = << >>
             /\ wk[w].pc = "done" =>
                  /\ wk[w].outcome = "returned"
                  /\ wk[w].result = ResultUndefined
                  /\ Len(wk[w].calls) = 1
                  /\ IsMarkFailed(wk[w].calls[1])
                  /\ wk[w].calls[1].detail = ErrNoTopic)
  /\ [][\A w \in Workers :
          ( /\ wk[w].pc = "markMissing"
            /\ wk'[w].pc = "done"
            /\ wk'[w].calls[1].ok )
          => /\ StatusOf(store', wk[w].taskId) = "failed"
             /\ store'[wk[w].taskId].error = ErrNoTopic
             /\ blobs' = blobs]_vars

\* the record Accept created has been marked failed by such a delivery
C10_Witness ==
  \E w \in Workers :
    /\ WorkerDone(w)
    /\ MissingTopic(BodyOf(w))
    /\ BodyOf(w).taskId \in TaskIds
    /\ wk[w].calls[1].ok
    /\ store[BodyOf(w).taskId].status = "failed"
    /\ store[BodyOf(w).taskId].topic.type = "string"

\* ------------------------------------------------- terminal statuses
\* C11 as claimed: once a record has status researched, no step writes
\* another status to it
C11_ResearchedTerminal ==
  [][\A t \in DOMAIN store :
       StatusOf(store, t) = "researched" => StatusOf(store', t) = "researched"]_vars

\* C12 as claimed: once a record has status failed, no step changes its
\* status
C12_AsClaimed ==
  [][\A t \in DOMAIN store :
       StatusOf(store, t) = "failed" => StatusOf(store', t) = "failed"]_vars

\* no invocation is working on task t and every work item of t has left the
\* queue
Quiescent(t) ==
  /\ \A w \in Workers : wk[w].taskId # t
  /\ \A m \in MessagesFor(t) : queue[m].st \in {"deleted", "dlq"}

\* C12 (amended): a delivery whose idempotency read finds status failed is
\* not stopped, its next call is the update to researching; a failed status
\* changes only to researching or researched; and once the work item is
\* deleted or dead-lettered and no delivery of it is running, a failed status
\* never changes.
C12_FailedUntilRedelivered ==
  /\ [](\A w \in Workers :
          ( /\ WellFormed(w)
            /\ Len(wk[w].calls) >= 1
            /\ wk[w].calls[1] = Call("GetCommand", BodyOf(w).taskId, "failed", TRUE) )
          => /\ Len(wk[w].calls) = 1 => wk[w].pc = "researching"
             /\ Len(wk[w].calls) >= 2 =>
                  /\ wk[w].calls[2].op = "UpdateCommand"
                  /\ wk[w].calls[2].arg = "researching")
  /\ [][\A t \in DOMAIN store :
          StatusOf(store, t) = "failed"
          => /\ StatusOf(store', t) \in {"failed", "researching", "researched"}
             /\ Quiescent(t) => StatusOf(store', t) = "failed"]_vars

\* the redelivery of a task marked failed has ended with status researched
C12_Witness ==
  \E w \in Workers :
    /\ WorkerDone(w)
    /\ wk[w].atDelivery = "failed"
    /\ wk[w].calls[1] = Call("GetCommand", wk[w].taskId, "failed", TRUE)
    /\ wk[w].outcome = "returned"
    /\ store[wk[w].taskId].status = "researched"

\* ------------------------------------------------------------ happy path
\* the blob key the specification gives task t
ArtifactKey(t) == "research/" \o t \o ".md"

Step(op, arg) == [op |-> op, arg |-> arg]
StepsOf(c) == [i \in 1..Len(c) |-> Step(c[i].op, c[i].arg)]
IsPrefix(a, b) == Len(a) <= Len(b) /\ \A i \in 1..Len(a) : a[i] = b[i]

\* the calls of a complete run, with or without the fetch of the credential
HappySteps(t, fetch) ==
  << Step("GetCommand", t), Step("UpdateCommand", "researching") >>
  \o (IF fetch THEN << Step("GetSecretValueCommand", "") >> ELSE << >>)
  \o << Step("messages.create", ""), Step("PutObjectCommand", ArtifactKey(t)),
        Step("UpdateCommand", "researched") >>

\* every call made so far succeeded and the provider answered with text
AllSucceeded(c) == \A i \in 1..Len(c) : c[i].ok /\ c[i].detail # "no text"

\* the idempotency read succeeded and did not find status researched
PassedGuard(w) ==
  /\ Len(wk[w].calls) >= 1
  /\ wk[w].calls[1].op = "GetCommand"
  /\ wk[w].calls[1].ok
  /\ wk[w].calls[1].detail # "researched"

\* C13: a delivery of a well-formed work item that passed the guard and whose
\* calls all succeed makes its calls in the order read, update to
\* researching, secret fetch (exactly when the process has no cached key),
\* provider call, blob write at research/<taskId>.md, update to researched
\* with that s3Key, and returns {taskId, s3Key, status: "researched"}; in no
\* invocation does the update to researched come without a successful blob
\* write before it.
C13_HappyPath ==
  /\ [](\A w \in Workers :
          /\ (WellFormed(w) /\ PassedGuard(w) /\ AllSucceeded(wk[w].calls))
             => LET t == BodyOf(w).taskId
                    c == StepsOf(wk[w].calls)
                IN  /\ \E fetch \in BOOLEAN : IsPrefix(c, HappySteps(t, fetch))
                    /\ wk[w].pc = "done" =>
                         /\ \E fetch \in BOOLEAN : c = HappySteps(t, fetch)
                         /\ wk[w].calls[Len(c)].detail = ArtifactKey(t)
                         /\ wk[w].outcome = "returned"
                         /\ wk[w].result = [taskId |-> t, s3Key |-> ArtifactKey(t),
                                            status |-> "researched"]
          /\ \A i \in 1..Len(wk[w].calls) :
               (wk[w].calls[i].op = "UpdateCommand" /\ wk[w].calls[i].arg = "researched")
               => \E j \in 1..(i - 1) :
                    /\ wk[w].calls[j] = Call("PutObjectCommand", ArtifactKey(wk[w].taskId),
                                             wk[w].content, TRUE))
  /\ [][\A w \in Workers :
          (wk[w].pc = "secret" /\ wk'[w].pc = "provider")
          => /\ cachedApiKey[w] = NoKey
                => wk'[w].calls = Append(wk[w].calls, Call("GetSecretValueCommand", "", "", TRUE))
             /\ cachedApiKey[w] # NoKey => wk'[w].calls = wk[w].calls
             /\ cachedApiKey'[w] = SecretString]_vars

\* a redelivery to a process that holds the key has completed the run
\* without a secret fetch
C13_Witness ==
  \E w \in Workers :
    /\ WorkerDone(w)
    /\ WellFormed(w)
    /\ StepsOf(wk[w].calls) = HappySteps(wk[w].taskId, FALSE)
    /\ AllSucceeded(wk[w].calls)
    /\ wk[w].result = [taskId |-> wk[w].taskId, s3Key |-> ArtifactKey(wk[w].taskId),
                       status |-> "researched"]
    /\ wk[w].taskId \in DOMAIN store
    /\ ArtifactKey(wk[w].taskId) \in DOMAIN blobs

\* ------------------------------------------------------------- artifacts
HasS3Key(st, t) == t \in DOMAIN st /\ "s3Key" \in DOMAIN st[t]

\* C14: a record that carries an s3Key names an object the Blob Store
\* holds, and the object was there before the update that set the s3Key:
\* whenever a step sets or changes the s3Key of a record, the Blob Store
\* held an object under the new key before that step, and the invocation
\* that makes the update has written an object under that key earlier.
C14_S3KeyResolves ==
  /\ [](\A t \in DOMAIN store : HasS3Key(store, t) => store[t].s3Key \in DOMAIN blobs)
  /\ [][\A t \in DOMAIN store' :
          ( /\ HasS3Key(store', t)
            /\ ~HasS3Key(store, t) \/ store[t].s3Key # store'[t].s3Key )
          => /\ store'[t].s3Key \in DOMAIN blobs
             /\ \E w \in Workers :
                  /\ wk'[w].calls = Append(wk[w].calls,
                                           Call("UpdateCommand", "researched", store'[t].s3Key, TRUE))
                  /\ \E j \in 1..Len(wk[w].calls) :
                       /\ wk[w].calls[j].op = "PutObjectCommand"
                       /\ wk[w].calls[j].arg = store'[t].s3Key
                       /\ wk[w].calls[j].ok]_vars

\* the record names its artifact while a later delivery has been marked
\* failed
C14_Witness ==
  \E t \in DOMAIN store :
    /\ HasS3Key(store, t)
    /\ store[t].s3Key \in DOMAIN blobs
    /\ blobs[store[t].s3Key] \in {"A", "B"}
    /\ store[t].status = "failed"

\* C15: every PutObjectCommand a delivery for task T issues, and every
\* s3Key it writes, is "research/" + T + ".md"; every object in the Blob
\* Store lies under the key of a task, the s3Key of a record is the key of
\* its own task, and a step that writes an object writes it under the key of
\* the task of the invocation that makes it.
C15_KeyOfTask ==
  /\ [](/\ \A w \in Workers : \A i \in 1..Len(wk[w].calls) :
             LET c == wk[w].calls[i] IN
             /\ c.op = "PutObjectCommand" => c.arg = ArtifactKey(BodyOf(w).taskId)
             /\ (c.op = "UpdateCommand" /\ c.arg = "researched")
                => c.detail = ArtifactKey(BodyOf(w).taskId)
        /\ \A t \in DOMAIN store : HasS3Key(store, t) => store[t].s3Key = ArtifactKey(t)
        /\ DOMAIN blobs \subseteq { ArtifactKey(t) : t \in DOMAIN store })
  /\ [][\A k \in DOMAIN blobs' :
          (k \notin DOMAIN blobs \/ blobs'[k] # blobs[k])
          => \E w \in Workers :
               /\ wk[w].pc = "putObject"
               /\ k = ArtifactKey(wk[w].taskId)]_vars

\* two tasks have been researched, each with its own key and object
C15_Witness ==
  \E t1, t2 \in DOMAIN store :
    /\ t1 # t2
    /\ HasS3Key(store, t1) /\ store[t1].s3Key = ArtifactKey(t1)
    /\ HasS3Key(store, t2) /\ store[t2].s3Key = ArtifactKey(t2)
    /\ {ArtifactKey(t1), ArtifactKey(t2)} \subseteq DOMAIN blobs
    /\ blobs[ArtifactKey(t1)] # blobs[ArtifactKey(t2)]

\* ------------------------------------------------------- retry contract
Gone(m) == m \in DOMAIN queue /\ queue[m].st \in {"deleted", "dlq"}

Duplicates(w, v) ==
  /\ w # v
  /\ WorkerDone(w) /\ WorkerDone(v)
  /\ wk[w].msg = wk[v].msg
  /\ WellFormed(w)
  /\ PassedGuard(w) /\ PassedGuard(v)

\* C17: when two deliveries of the same work item both passed the guard and
\* every call of both succeeded, then, however their steps interleaved, the
\* record has status researched and s3Key research/<taskId>.md, the Blob
\* Store holds under that key the text one of the two wrote, both returned
\* the researched result, and nothing changes the record or the object
\* afterwards.
C17_BenignDuplicate ==
  /\ [](\A w, v \in Workers :
          (Duplicates(w, v) /\ AllSucceeded(wk[w].calls) /\ AllSucceeded(wk[v].calls))
          => LET t == BodyOf(w).taskId IN
             /\ StatusOf(store, t) = "researched"
             /\ HasS3Key(store, t)
             /\ store[t].s3Key = ArtifactKey(t)
             /\ ArtifactKey(t) \in DOMAIN blobs
             /\ blobs[ArtifactKey(t)] \in {wk[w].content, wk[v].content}
             /\ wk[w].result = [taskId |-> t, s3Key |-> ArtifactKey(t), status |-> "researched"]
             /\ wk[v].result = wk[w].result)
  /\ [][\A w, v \in Workers :
          (Duplicates(w, v) /\ AllSucceeded(wk[w].calls) /\ AllSucceeded(wk[v].calls))
          => store' = store /\ blobs' = blobs]_vars

\* both deliveries ran to the end with different texts; the object holds the
\* one written last
C17_Witness ==
  /\ Duplicates("w1", "w2")
  /\ AllSucceeded(wk["w1"].calls) /\ AllSucceeded(wk["w2"].calls)
  /\ wk["w1"].content = "A" /\ wk["w2"].content = "B"
  /\ blobs[ArtifactKey(wk["w1"].taskId)] = "A"
  /\ store[wk["w1"].taskId].status = "researched"

\* the invocation ended with a successful update to the given status
EndedWith(w, status) ==
  LET c == wk[w].calls IN
  /\ c # << >>
  /\ c[Len(c)].op = "UpdateCommand"
  /\ c[Len(c)].arg = status
  /\ c[Len(c)].ok

\* one of two duplicate deliveries completed and the other one failed and
\* recorded its failure; both had read the record before either wrote to it
MixedOutcome(w, v) ==
  /\ Duplicates(w, v)
  /\ wk[w].calls[1].detail = "pending"
  /\ wk[v].calls[1].detail = "pending"
  /\ EndedWith(w, "researched")
  /\ EndedWith(v, "failed")

\* C18 as claimed: the status two duplicate deliveries leave behind depends
\* on their outcomes only, not on the order of their writes; for one success
\* and one recorded failure it is the success that stands (researched being
\* terminal).
C18_Convergent ==
  \A w, v \in Workers :
    MixedOutcome(w, v) => StatusOf(store, BodyOf(w).taskId) = "researched"

\* the same outcomes with the writes in the other order: the failure does
\* not stand either
C18_OtherOrder ==
  \A w, v \in Workers :
    MixedOutcome(w, v) => StatusOf(store, BodyOf(w).taskId) = "failed"

\* --------------------------------------------------- response extraction
TextBlocks(r) == { i \in 1..Len(r) : r[i].type = "text" }
FirstTextOf(r) == r[CHOOSE i \in TextBlocks(r) : \A j \in TextBlocks(r) : i <= j].text

\* the provider has answered this invocation
Answered(w) ==
  \E i \in 1..Len(wk[w].calls) :
    wk[w].calls[i].op = "messages.create" /\ wk[w].calls[i].ok

NoBlobWrite(w) ==
  \A i \in 1..Len(wk[w].calls) : wk[w].calls[i].op # "PutObjectCommand"

C20_LengthBoundary ==
  /\ AcceptDone /\ acc.body = Body("object", Str(MaxTopicLength))
     => /\ acc.resp.statusCode # 400
        /\ acc.calls # << >>
        /\ (AcceptCallOk(1) /\ AcceptCallOk(2))
           => /\ acc.resp = Resp(202, acc.taskId, "pending", "")
              /\ store[acc.taskId].topic = Str(MaxTopicLength)
              /\ \E m \in MessagesFor(acc.taskId) :
                   queue[m].body = WorkItem(acc.taskId, Str(MaxTopicLength))
  /\ AcceptDone /\ acc.body = Body("object", Str(MaxTopicLength + 1))
     => /\ acc.resp.statusCode = 400
        /\ acc.resp.error = "topic must be 500 characters or fewer"
        /\ acc.calls = << >>
        /\ acc.taskId = NoId
  /\ acc.pc \in {"put", "send", "compensate"} => acc.topic.n <= MaxTopicLength
  /\ \A t \in DOMAIN store : store[t].topic.n <= MaxTopicLength

\* a topic of 500 characters has been accepted and queued
C20_Witness ==
  /\ AcceptDone
  /\ acc.body = Body("object", Str(MaxTopicLength))
  /\ acc.resp.statusCode = 202
  /\ store[acc.taskId].topic.n = MaxTopicLength
  /\ \E m \in MessagesFor(acc.taskId) : queue[m].body.topic.n = MaxTopicLength

\* --------------------------------------------------- field-level updates
\* the attributes of a record a step has written, added or removed
ChangedAttrs(old, new) ==
  { a \in DOMAIN old \cup DOMAIN new :
      a \notin DOMAIN old \/ a \notin DOMAIN new \/ old[a] # new[a] }

\* C21: a step never removes a record or one of its attributes, never
\* changes its taskId, topic or createdAt, and what it changes is status and
\* updatedAt, together with s3Key only when it writes researched and with
\* error only when it writes failed.
C21_FieldLevelUpdates ==
  [][\A t \in DOMAIN store :
       /\ t \in DOMAIN store'
       /\ DOMAIN store[t] \subseteq DOMAIN store'[t]
       /\ store'[t].taskId = store[t].taskId
       /\ store'[t].topic = store[t].topic
       /\ store'[t].createdAt = store[t].createdAt
       /\ LET ch == ChangedAttrs(store[t], store'[t]) IN
          /\ ch \subseteq {"status", "updatedAt", "s3Key", "error"}
          /\ "s3Key" \in ch => store'[t].status = "researched"
          /\ "error" \in ch => store'[t].status = "failed"]_vars

\* after a failed delivery and a successful retry the record holds the
\* error, the s3Key and everything Accept wrote
C21_Witness ==
  \E t \in DOMAIN store :
    /\ DOMAIN store[t] = {"taskId", "status", "topic", "createdAt", "updatedAt",
                          "s3Key", "error"}
    /\ store[t].status = "researched"
    /\ store[t].topic \in {Str(1), Str(MaxTopicLength)}
    /\ store[t].taskId = t

\* ------------------------------------------------------- orphaned record
\* the publish failed and the compensating update failed as well
CompensationFailed ==
  /\ PublishFailed
  /\ AcceptCallFailed(3)
  /\ acc.calls[3].op = "UpdateCommand"

\* C22: when the publish and the compensating update both fail, the handler
\* still answers 500 "Failed to place message on queue", the record is left
\* exactly as the PutCommand wrote it (status pending, no error) and no work
\* item names it; a pending record without work item that Accept has left
\* behind stays pending.
C22_OrphanedPending ==
  /\ [](CompensationFailed
        => /\ acc.resp = Resp(500, NoId, "", ErrPublish)
           /\ Len(acc.calls) = 3
           /\ acc.taskId \in DOMAIN store
           /\ store[acc.taskId] = PendingItem(acc.taskId, acc.topic, acc.now)
           /\ MessagesFor(acc.taskId) = {})
  /\ [][\A t \in DOMAIN store :
          ( /\ StatusOf(store, t) = "pending"
            /\ MessagesFor(t) = {}
            /\ acc.taskId # t )
          => /\ store'[t] = store[t]
             /\ MessagesFor(t)' = {}]_vars

\* the next request has been accepted while the orphaned record is still
\* pending
C22_Witness ==
  \E t \in DOMAIN store :
    /\ StatusOf(store, t) = "pending"
    /\ MessagesFor(t) = {}
    /\ AcceptDone
    /\ acc.taskId \notin {t, NoId}
    /\ acc.resp.statusCode = 202

\* ------------------------------------------------------------- recovery
\* the invocation is a redelivery of a message whose task an earlier
\* delivery had marked failed
RedeliveryOfFailed(w) ==
  /\ WellFormed(w)
  /\ queue[wk[w].msg].rc >= 2
  /\ wk[w].atDelivery = "failed"
  /\ Len(wk[w].calls) >= 1
  /\ wk[w].calls[1] = Call("GetCommand", wk[w].taskId, "failed", TRUE)

\* C23: a redelivery of a work item whose task a failed delivery had marked
\* failed, on which every call succeeds, runs the whole research and ends
\* with status researched, the s3Key on the record, its text in the Blob
\* Store and the researched result returned.
C23_Recovery ==
  \A w \in Workers :
    (RedeliveryOfFailed(w) /\ AllSucceeded(wk[w].calls) /\ wk[w].pc = "done")
    => LET t == wk[w].taskId IN
       /\ \E fetch \in BOOLEAN : StepsOf(wk[w].calls) = HappySteps(t, fetch)
       /\ wk[w].outcome = "returned"
       /\ wk[w].result = [taskId |-> t, s3Key |-> ArtifactKey(t), status |-> "researched"]
       /\ StatusOf(store, t) = "researched"
       /\ store[t].s3Key = ArtifactKey(t)
       /\ ArtifactKey(t) \in DOMAIN blobs
       /\ blobs[ArtifactKey(t)] = wk[w].content

\* the provider was rate limited on the first delivery and answered on the
\* second
C23_Witness ==
  \E w \in Workers :
    /\ RedeliveryOfFailed(w)
    /\ AllSucceeded(wk[w].calls)
    /\ WorkerDone(w)
    /\ store[wk[w].taskId].status = "researched"
    /\ store[wk[w].taskId].error = ErrProvider
    /\ blobs[ArtifactKey(wk[w].taskId)] = wk[w].content
    /\ timeouts = 0

\* ----------------------------------------------------- credential cache
\* the step appends a call to the Secret Provider to the invocation's log
FetchesSecret(w) ==
  /\ Len(wk'[w].calls) = Len(wk[w].calls) + 1
  /\ wk'[w].calls[Len(wk'[w].calls)].op = "GetSecretValueCommand"

\* C24: in a worker process (whose secret has a non-empty SecretString) the
\* key, once fetched, never changes and no later step of that process calls
\* the Secret Provider; a process without a cached key calls the Secret
\* Provider whenever an invocation reaches the fetch, a successful fetch
\* caches the key and a failed one caches nothing; an invocation past the
\* fetch works with the cached key.
C24_CredentialCache ==
  /\ [](\A w \in Workers :
          /\ cachedApiKey[w] \in {NoKey, SecretString}
          /\ wk[w].pc \in {"provider", "putObject", "researched"}
             => cachedApiKey[w] = SecretString)
  /\ [][\A w \in Workers :
          /\ cachedApiKey[w] # NoKey
             => /\ cachedApiKey'[w] = cachedApiKey[w]
                /\ ~FetchesSecret(w)
          /\ (cachedApiKey[w] = NoKey /\ wk[w].pc = "secret" /\ wk'[w] # wk[w])
             => /\ FetchesSecret(w)
                /\ IF wk'[w].calls[Len(wk'[w].calls)].ok
                   THEN cachedApiKey'[w] = SecretString /\ wk'[w].pc = "provider"
                   ELSE /\ cachedApiKey'[w] = NoKey
                        /\ wk'[w].pc = "markFailed"
                        /\ wk'[w].err = ErrSecret
          /\ cachedApiKey'[w] # cachedApiKey[w] => wk[w].pc = "secret"]_vars

\* the second invocation in a process works with the key the first one
\* fetched, while the other process has none
C24_Witness ==
  \E w, v \in Workers :
    /\ w # v
    /\ WellFormed(w)
    /\ queue[wk[w].msg].rc = 2
    /\ timeouts = 0
    /\ wk[w].pc = "putObject"
    /\ \A i \in 1..Len(wk[w].calls) : wk[w].calls[i].op # "GetSecretValueCommand"
    /\ cachedApiKey[w] = SecretString
    /\ cachedApiKey[v] = NoKey

\* ------------------------------------------------------ no internal retry
\* no command other than the status update occurs twice in the log, no
\* status is written twice, and a failed call is followed by nothing but the
\* one update to failed
NoRetryIn(c) ==
  /\ \A i, j \in 1..Len(c) :
       (i < j /\ c[i].op = c[j].op)
       => c[i].op = "UpdateCommand" /\ c[i].arg # c[j].arg
  /\ \A i \in 1..Len(c) :
       ~c[i].ok
       => \/ i = Len(c)
          \/ i = Len(c) - 1 /\ IsMarkFailed(c[Len(c)])

\* C25: within one Worker invocation the provider is called at most once
\* and the blob written at most once, within one Accept invocation the
\* PutCommand and the SendMessageCommand are each issued at most once, and in
\* neither is a failed call issued again: after a failed call the invocation
\* makes at most the one update to status failed.
C25_NoInternalRetry ==
  /\ NoRetryIn(acc.calls)
  /\ Len(acc.calls) <= 3
  /\ \A w \in Workers :
       /\ NoRetryIn(wk[w].calls)
       /\ Len(wk[w].calls) <= 7

\* the provider call failed; the invocation ended after marking the task
\* failed, and the queue delivered the message again
C25_Witness ==
  \E w, v \in Workers :
    /\ WorkerDone(w)
    /\ Len(wk[w].calls) = 5
    /\ wk[w].calls[4] = Call("messages.create", "", "", FALSE)
    /\ IsMarkFailed(wk[w].calls[5])
    /\ wk[v].msg = wk[w].msg
    /\ wk[v].pc = "provider"

\* ------------------------------------------------------ s3Key and error
\* the record of key t before a step, as the update sees it
ItemBefore(st, t) == IF t \in DOMAIN st THEN st[t] ELSE [taskId |-> t]

\* C26: a step that writes s3Key to a record writes status researched with
\* it, and a step that writes error writes status failed with it; a step
\* that writes status pending or researching leaves s3Key and error as they
\* were; the only status updates issued are researching (without extra
\* field), researched (with the s3Key) and failed (with an error), and the
\* record Accept creates has neither s3Key nor error.
C26_ExtraFields ==
  /\ [](/\ \A w \in Workers : \A i \in 1..Len(wk[w].calls) :
             LET c == wk[w].calls[i] IN
             c.op = "UpdateCommand"
             => /\ c.arg \in {"researching", "researched", "failed"}
                /\ c.arg = "researching" => c.detail = ""
                /\ c.arg = "researched" => c.detail = ArtifactKey(wk[w].taskId)
                /\ c.arg = "failed" => c.detail # ""
        /\ \A i \in 1..Len(acc.calls) :
             LET c == acc.calls[i] IN
             /\ c.op = "PutCommand" => c.detail = "pending"
             /\ c.op = "UpdateCommand" => c.arg = "failed" /\ c.detail = ErrPublish)
  /\ [][\A t \in DOMAIN store' :
          LET ch == ChangedAttrs(ItemBefore(store, t), store'[t]) IN
          /\ "s3Key" \in ch => store'[t].status = "researched"
          /\ "error" \in ch => store'[t].status = "failed"
          /\ (ch # {} /\ store'[t].status \in {"pending", "researching"})
             => ch \cap {"s3Key", "error"} = {}]_vars

\* a retry has set the record to researching; the error of the failed
\* attempt is still on it
C26_Witness ==
  \E t \in DOMAIN store :
    /\ store[t].status = "researching"
    /\ "error" \in DOMAIN store[t]
    /\ store[t].error = ErrProvider
    /\ "s3Key" \notin DOMAIN store[t]

\* ------------------------------------------------- the guard is no lock
ProviderCalls(w) ==
  { i \in 1..Len(wk[w].calls) : wk[w].calls[i].op = "messages.create" }
BlobWrites(w) ==
  { i \in 1..Len(wk[w].calls) :
      wk[w].calls[i].op = "PutObjectCommand" /\ wk[w].calls[i].ok }

\* C27: the guard looks at the status it read and at nothing else: a
\* delivery whose read finds a status other than researched goes on to the
\* update to researching, also while another delivery of the same message
\* is under way or has set the status to researching; each delivery that
\* gets that far calls the provider, so one task can see as many provider
\* calls as it has deliveries.
C27_GuardIsNoLock ==
  \A w \in Workers :
    (WellFormed(w) /\ PassedGuard(w))
    => /\ Len(wk[w].calls) = 1 => wk[w].pc = "researching"
       /\ Len(wk[w].calls) >= 2 =>
            /\ wk[w].calls[2].op = "UpdateCommand"
            /\ wk[w].calls[2].arg = "researching"
       /\ wk[w].pc \in {"putObject", "researched"} => ProviderCalls(w) # {}
       /\ Cardinality(ProviderCalls(w)) <= 1

\* two deliveries read the record as pending; the first one completed, and
\* the second one still called the provider and wrote the blob: two provider
\* calls and two blob writes for one task
C27_Witness ==
  \E w, v \in Workers :
    /\ Duplicates(w, v)
    /\ wk[w].calls[1].detail = "pending"
    /\ wk[v].calls[1].detail = "pending"
    /\ EndedWith(w, "researched")
    /\ Cardinality(ProviderCalls(w)) + Cardinality(ProviderCalls(v)) = 2
    /\ Cardinality(BlobWrites(w)) + Cardinality(BlobWrites(v)) = 2
    /\ wk[w].content = "A"
    /\ blobs[ArtifactKey(wk[w].taskId)] = "B"
    /\ store[wk[w].taskId].status = "researched"

\* ------------------------------------------------------- empty event
\* the invocation had no record to work on
EmptyEvent(w) == wk[w].pc = "done" /\ wk[w].msg = 0

\* C28: an invocation with an event without Records returns normally, with
\* no value, and has made no external call; the step leaves the Task Store,
\* the Blob Store, the queue and the cached key as they were.
C28_NoRecords ==
  /\ [](\A w \in Workers :
          EmptyEvent(w)
          => /\ wk[w].outcome = "returned"
             /\ wk[w].error = ""
             /\ wk[w].result = ResultUndefined
             /\ wk[w].calls = << >>)
  /\ [][\A w \in Workers :
          (~EmptyEvent(w) /\ EmptyEvent(w)')
          => /\ store' = store
             /\ blobs' = blobs
             /\ queue' = queue
             /\ cachedApiKey' = cachedApiKey]_vars

\* the invocation returned while a work item was waiting on the queue
C28_Witness ==
  \E w \in Workers :
    /\ EmptyEvent(w)
    /\ wk[w].outcome = "returned"
    /\ \E m \in DOMAIN queue : queue[m].st = "visible" /\ queue[m].rc = 1
    /\ \E t \in DOMAIN store : store[t].status = "failed"

\* ------------------------------------------- missing topic, failed update
\* the delivery of a body without topic has ended and its update failed
MissingTopicUpdateFailed(w) ==
  /\ WorkerDone(w)
  /\ MissingTopic(BodyOf(w))
  /\ Len(wk[w].calls) = 1
  /\ ~wk[w].calls[1].ok

\* C29: when the update to failed of the missing-topic path fails, the
\* handler still returns normally after that one call, the step leaves the
\* Task Store as it was, and the event source deletes the message, which is
\* never received again.
C29_MissingTopicUpdateFails ==
  /\ [](\A w \in Workers :
          MissingTopicUpdateFailed(w)
          => /\ wk[w].outcome = "returned"
             /\ wk[w].result = ResultUndefined
             /\ IsMarkFailed(wk[w].calls[1]))
  /\ [][\A w \in Workers :
          /\ (wk[w].pc = "markMissing" /\ MissingTopicUpdateFailed(w)')
             => store' = store /\ blobs' = blobs
          /\ (MissingTopicUpdateFailed(w) /\ wk'[w].pc = "idle")
             => queue'[wk[w].msg].st = "deleted"
          /\ \A m \in DOMAIN queue :
               queue[m].st = "deleted" => queue'[m] = queue[m]]_vars

\* the update failed, the message is gone after one receive and the record
\* is still pending
C29_Witness ==
  \E m \in DOMAIN queue :
    /\ MissingTopic(queue[m].body)
    /\ queue[m].st = "deleted"
    /\ queue[m].rc = 1
    /\ queue[m].body.taskId \in DOMAIN store
    /\ store[queue[m].body.taskId].status = "pending"
    /\ wk["w1"].pc = "idle"

\* C30 as claimed: a delivery of a body with a taskId and no topic never
\* changes the status of a record that is researched
C30_RespectsResearched ==
  [][\A w \in Workers :
       ( /\ wk[w].pc = "markMissing"
         /\ StatusOf(store, wk[w].taskId) = "researched"
         /\ wk'[w].pc = "done" )
       => StatusOf(store', wk[w].taskId) = "researched"]_vars

\* ------------------------------------------------------ Accept's outcome
\* validation fails: the body cannot be parsed or it carries no topic that
\* is a non-empty string of at most 500 characters
ValidationFails(b) == ~ValidTopicBody(b)

\* the answer the claim gives a finished request
ClaimedStatus ==
  IF ValidationFails(acc.body) THEN 400
  ELSE IF Len(acc.calls) = 2 /\ AcceptCallOk(1) /\ AcceptCallOk(2) THEN 202
  ELSE 500

\* C31 as claimed: every request is answered, with 202 exactly when the
\* topic is valid and both the store write and the publish succeeded, with
\* 400 exactly when validation fails, the absent body, the empty object and
\* the empty topic being reported as missing topic, and with 500 otherwise.
C31_OutcomeDetermined ==
  AcceptDone
  => /\ acc.resp.statusCode = ClaimedStatus
     /\ (acc.body \in {Body("absent", Undefined), Body("object", Undefined),
                       Body("object", Str(0))})
        => acc.resp.error = "Missing required field: topic (must be a string)"

\* the same for every body but the JSON text null
C31_ExceptNull ==
  (AcceptDone /\ acc.body.raw # "null")
  => /\ acc.resp.statusCode = ClaimedStatus
     /\ (acc.body \in {Body("absent", Undefined), Body("object", Undefined),
                       Body("object", Str(0))})
        => acc.resp.error = "Missing required field: topic (must be a string)"

\* ------------------------------------------------------ Worker's outcome
\* the cases in which the claim has the handler throw
ShouldThrow(w) ==
  /\ wk[w].msg # 0
  /\ \/ BodyOf(w).raw = "invalid"
     \/ BodyOf(w).taskId = NoId
     \/ /\ WellFormed(w)
        /\ \E i \in 1..Len(wk[w].calls) : StepFailedAt(wk[w].calls, i)

\* C32: an invocation that has ended threw exactly when the body is not
\* JSON, or has no taskId, or has taskId and topic and one of the steps from
\* the idempotency read to the researched update failed; in every other case
\* (no records, missing topic whatever becomes of its update, already
\* researched, full success) it returned.
C32_ThrowsIff ==
  \A w \in Workers :
    wk[w].pc = "done"
    => /\ wk[w].outcome \in {"threw", "returned"}
       /\ wk[w].outcome = "threw" <=> ShouldThrow(w)
       /\ wk[w].outcome = "threw" <=> wk[w].error # ""

\* the researched update failed after the blob write: the invocation threw
C32_Witness ==
  \E w \in Workers :
    /\ WorkerDone(w)
    /\ WellFormed(w)
    /\ Len(wk[w].calls) = 7
    /\ wk[w].calls[6] = Call("UpdateCommand", "researched", ArtifactKey(wk[w].taskId), FALSE)
    /\ wk[w].outcome = "threw"
    /\ wk[w].error = ErrUpdate

\* ------------------------------------------------- no silent loss
\* the invocation returned for a body with taskId and topic
Acknowledged(w) ==
  /\ WorkerDone(w)
  /\ WellFormed(w)
  /\ wk[w].outcome = "returned"

\* C33: an invocation that returns for a work item with taskId and topic
\* has either, as its only call, read the record with status researched, or
\* made as its last call a successful update to researched after a
\* successful blob write; none of its calls failed; and at the step on which
\* it returns the record has status researched.
C33_NoSilentLoss ==
  /\ [](\A w \in Workers :
          Acknowledged(w)
          => LET c == wk[w].calls
                 t == BodyOf(w).taskId
             IN  /\ AllSucceeded(c)
                 /\ \/ c = << Call("GetCommand", t, "researched", TRUE) >>
                    \/ /\ EndedWith(w, "researched")
                       /\ \E j \in 1..(Len(c) - 1) :
                            c[j].op = "PutObjectCommand" /\ c[j].ok)
  /\ [][\A w \in Workers :
          (~Acknowledged(w) /\ Acknowledged(w)')
          => /\ StatusOf(store', wk'[w].taskId) = "researched"
             /\ HasS3Key(store', wk'[w].taskId)
             /\ store'[wk'[w].taskId].s3Key \in DOMAIN blobs']_vars

\* the first delivery returned after its researched update
C33_Witness ==
  \E w \in Workers :
    /\ Acknowledged(w)
    /\ EndedWith(w, "researched")
    /\ queue[wk[w].msg].rc = 1
    /\ queue[wk[w].msg].st = "inflight"
    /\ store[wk[w].taskId].status = "researched"

\* ------------------------------------------------------------ record shape
RequiredAttrs == {"taskId", "status", "topic", "createdAt", "updatedAt"}
Statuses == {"pending", "researching", "researched", "failed"}

\* C34 as claimed: every record has a key Accept generated and carries
\* taskId, a status of the four, topic, createdAt and updatedAt; no step of
\* a worker adds a record to the Task Store.
C34_RecordShape ==
  /\ [](\A t \in DOMAIN store :
          /\ t \in issued
          /\ RequiredAttrs \subseteq DOMAIN store[t]
          /\ store[t].taskId = t
          /\ store[t].status \in Statuses)
  /\ [][DOMAIN store' # DOMAIN store
          => /\ acc.pc = "put"
             /\ acc'.pc = "send"
             /\ DOMAIN store' = DOMAIN store \cup {acc.taskId}]_vars

\* C35 as claimed: a record with status researched carries s3Key and no
\* error attribute, whatever earlier attempts recorded; a record with
\* status failed carries an error attribute.
C35_RecordConsistency ==
  \A t \in DOMAIN store :
    /\ store[t].status = "researched"
         => HasS3Key(store, t) /\ "error" \notin DOMAIN store[t]
    /\ store[t].status = "failed" => "error" \in DOMAIN store[t]

\* The part of C35 that does not concern the stale error attribute.
C35_ExceptStaleError ==
  \A t \in DOMAIN store :
    /\ store[t].status = "researched" => HasS3Key(store, t)
    /\ store[t].status = "failed" => "error" \in DOMAIN store[t]

\* ------------------------------------------------- writers of one record
AcceptWrites == acc' # acc /\ store' # store
WorkerWrites(w) == wk'[w] # wk[w] /\ store' # store

\* C36: Accept changes a task's record only while no work item naming that
\* task has ever been on the queue and no worker invocation handles the
\* task; a worker changes a record only when a work item naming it has been
\* published, at which point Accept is past all its writes for that task;
\* and a work item, once published, stays on record with the same body.
C36_DisjointWriters ==
  /\ [][AcceptWrites
          => /\ acc.pc \in {"put", "compensate"}
             /\ MessagesFor(acc.taskId) = {}
             /\ \A w \in Workers : wk[w].taskId # acc.taskId
             /\ \A t \in DOMAIN store \ {acc.taskId} :
                  t \in DOMAIN store' /\ store'[t] = store[t]]_vars
  /\ [][\A w \in Workers :
          WorkerWrites(w)
          => /\ MessagesFor(wk[w].taskId) # {}
             /\ ~(acc.taskId = wk[w].taskId
                    /\ acc.pc \in {"put", "send", "compensate"})
             /\ acc' = acc]_vars
  /\ [][\A m \in DOMAIN queue :
          m \in DOMAIN queue' /\ queue'[m].body = queue[m].body]_vars

\* a worker has updated the record of a task while the Accept invocation
\* that created it has not yet delivered its 202
C36_Witness ==
  \E w \in Workers :
    /\ acc.pc = "done"
    /\ acc.resp.statusCode = 202
    /\ wk[w].taskId = acc.taskId
    /\ \E i \in 1..Len(wk[w].calls) :
         wk[w].calls[i].op = "UpdateCommand" /\ wk[w].calls[i].ok
    /\ store[acc.taskId].status # "pending"

\* ---------------------------------------------------- dead-lettered tasks
WorkerErrors == {ErrGet, ErrUpdate, ErrSecret, ErrProvider, ErrS3, ErrNoText}

\* every Task Store write a worker has attempted so far succeeded
NoFailedStoreWrite ==
  \A w \in Workers : \A i \in 1..Len(wk[w].calls) :
    wk[w].calls[i].op = "UpdateCommand" => wk[w].calls[i].ok

\* a work item with taskId and topic is in the dead-letter queue and no
\* invocation handles its task
DeadLettered(m) ==
  /\ queue[m].st = "dlq"
  /\ queue[m].body.raw = "object"
  /\ queue[m].body.taskId # NoId
  /\ Truthy(queue[m].body.topic)
  /\ \A w \in Workers : wk[w].taskId # queue[m].body.taskId

\* the three updates of a worker when DynamoDB accepts them
W_SetResearchingOk(w) == W_SetResearching(w) /\ NoFailedStoreWrite'
W_SetResearchedOk(w)  == W_SetResearched(w) /\ NoFailedStoreWrite'
W_MarkFailedOk(w)     == W_MarkFailed(w) /\ NoFailedStoreWrite'

\* The pipeline of Spec when every UpdateCommand of a worker succeeds.
NextReliable ==
  \/ VisibilityTimeout
  \/ Redrive
  \/ A_InvokeFirst
  \/ A_Put
  \/ A_Send
  \/ A_Compensate
  \/ A_Return
  \/ \E w \in Workers :
       \/ W_Invoke(w)
       \/ W_Get(w)
       \/ W_SetResearchingOk(w)
       \/ getAnthropicApiKey(w)
       \/ W_CallProvider(w)
       \/ W_PutObject(w)
       \/ W_SetResearchedOk(w)
       \/ W_MarkFailedOk(w)
       \/ W_Complete(w)

SpecReliable == Init /\ [][NextReliable]_vars

\* C37 as claimed: when no Task Store write of a worker fails, whenever a
\* well-formed work item is in the dead-letter queue and no invocation is
\* in flight, its record has status failed and the error of a failed attempt.
C37_AsClaimed ==
  \A m \in DOMAIN queue :
    DeadLettered(m)
    => LET t == queue[m].body.taskId
       IN  /\ t \in DOMAIN store
           /\ store[t].status = "failed"
           /\ "error" \in DOMAIN store[t]
           /\ store[t].error \in WorkerErrors

\* the invocation of w ends the last receive the redrive policy allows: it
\* threw after its update to failed succeeded, and no receive of the item
\* has outlived its visibility timeout
LastAttemptFailed(w) ==
  /\ WorkerDone(w)
  /\ WellFormed(w)
  /\ wk[w].outcome = "threw"
  /\ timeouts = 0
  /\ queue[wk[w].msg].rc = MaxReceiveCount
  /\ IsMarkFailed(wk[w].calls[Len(wk[w].calls)])
  /\ wk[w].calls[Len(wk[w].calls)].ok

\* C37 (amended): when no Task Store write of a worker fails, whenever a
\* well-formed work item is in the dead-letter queue and no invocation
\* handles its task, the record has status failed with the error of a
\* failed attempt, or status researched with the key of a stored artifact,
\* the latter only when a receive outlived its visibility timeout; when the
\* event source acts on the throw of the last receive the record has
\* status failed and the error thrown, and the item is dead-lettered next;
\* the record of a dead-lettered item no invocation handles never changes.
C37_DeadLetteredInformative ==
  /\ [](\A m \in DOMAIN queue :
          DeadLettered(m)
          => LET t == queue[m].body.taskId
             IN  /\ t \in DOMAIN store
                 /\ \/ /\ store[t].status = "failed"
                       /\ "error" \in DOMAIN store[t]
                       /\ store[t].error \in WorkerErrors
                    \/ /\ store[t].status = "researched"
                       /\ timeouts > 0
                       /\ HasS3Key(store, t)
                       /\ store[t].s3Key \in DOMAIN blobs)
  /\ [][\A w \in Workers :
          (LastAttemptFailed(w) /\ wk'[w].pc = "idle")
          => /\ store[wk[w].taskId].status = "failed"
             /\ store[wk[w].taskId].error = wk[w].error
             /\ wk[w].error \in WorkerErrors
             /\ queue'[wk[w].msg].st = "visible"
             /\ queue'[wk[w].msg].rc >= MaxReceiveCount]_vars
  /\ [][\A m \in DOMAIN queue :
          DeadLettered(m)
          => store'[queue[m].body.taskId] = store[queue[m].body.taskId]]_vars

\* the item was received MaxReceiveCount times one after the other, each
\* attempt failed at the provider, and the item is dead-lettered
C37_Witness ==
  \E m \in DOMAIN queue :
    /\ DeadLettered(m)
    /\ timeouts = 0
    /\ queue[m].rc = MaxReceiveCount
    /\ store[queue[m].body.taskId].status = "failed"
    /\ store[queue[m].body.taskId].error = ErrProvider
    /\ \A w \in Workers : wk[w].pc = "idle"

====
